---- MODULE Spec2Model ----
(***************************************************************************)
(* Client-side job lifecycle of the text-to-video generator:               *)
(*   VideoGenerator.tsx  (form, handleSubmit, completion/error handlers),  *)
(*   ProgressTracker.tsx (polling effect, checkStatus),                    *)
(*   lib/api.ts          (generateVideo, checkGenerationStatus),           *)
(*   localStorage key 'video-history' (the bounded history).               *)
(*                                                                         *)
(* React is modelled at the granularity of one handler / one continuation  *)
(* after an await per step; the state updates of a step and the re-render  *)
(* they cause (mount, unmount or re-run of the polling effect) are part of *)
(* the same step.                                                          *)
(***************************************************************************)
EXTENDS Integers, Sequences, FiniteSets

\* ------------------------------------------------------------------ bounds
MaxJobs  == 1      \* generateVideo calls made in one run
MaxPolls == 2      \* checkGenerationStatus calls made in one run
MaxClock == 1      \* seconds of Date.now() that pass after page load
MaxRemoves == 1    \* deleteItem / clearHistory clicks in one run

\* --------------------------------------------------------------- constants
HistoryCap == 10

NoJob     == 0
Null      == "null"           \* null for message-valued state
Undefined == <<"undefined">>  \* an omitted text field (no text equals it)
NoVideo   == <<>>             \* null for generatedVideo
NoStatus  == <<>>             \* APIError.status left undefined
NoEffect  == [job |-> NoJob, prompt |-> <<>>, start |-> 0, timers |-> 0]
NaN      == <<>>
Num(v)   == <<v>>
IsNum(x) == Len(x) = 1

API_BASE == "http://localhost:8000"

\* ----------------------------------------------------------------- strings
\* Texts are sequences of one-character strings.
Prompts == { <<>>, <<" ">>, <<" ", "a">> }

IsSpace(c) == c = " "

RECURSIVE TrimStart(_)
TrimStart(s) ==
  IF s = <<>> THEN s
  ELSE IF IsSpace(Head(s)) THEN TrimStart(Tail(s)) ELSE s

RECURSIVE TrimEnd(_)
TrimEnd(s) ==
  IF s = <<>> THEN s
  ELSE IF IsSpace(s[Len(s)]) THEN TrimEnd(SubSeq(s, 1, Len(s) - 1)) ELSE s

\* String.prototype.trim
TrimNoop(s) == s
Trim(s) == TrimEnd(TrimStart(s))

\* !formData.prompt.trim()  : the empty string is the only falsy string
BlankPrompt(p) == Trim(p) = <<>>

Digits == <<"0", "1", "2", "3", "4", "5", "6", "7", "8", "9">>
IsDigit(c) == \E i \in 1..10 : Digits[i] = c
DigitVal(c) == (CHOOSE i \in 1..10 : Digits[i] = c) - 1

RECURSIVE DigitPrefix(_, _)
DigitPrefix(s, acc) ==
  IF s = <<>> \/ ~IsDigit(Head(s)) THEN acc
  ELSE DigitPrefix(Tail(s), acc * 10 + DigitVal(Head(s)))

\* parseFloat on texts made of digits and letters: the longest numeric
\* prefix, NaN when there is none.
ParseFloat(s) ==
  IF s = <<>> \/ ~IsDigit(Head(s)) THEN NaN ELSE Num(DigitPrefix(s, 0))

\* parseInt on the same texts
ParseInt(s) ==
  IF s = <<>> \/ ~IsDigit(Head(s)) THEN NaN ELSE Num(DigitPrefix(s, 0))

RECURSIVE Gcd(_, _)
Gcd(a, b) == IF b = 0 THEN a ELSE Gcd(b, a % b)

\* The number n / d (n >= 0, d > 0) in lowest terms; a time in seconds.
Quot(n, d) == << n \div Gcd(n, d), d \div Gcd(n, d) >>

\* x || dflt  for an optional text: undefined and "" are falsy
OrDefault(x, dflt) == IF x = Undefined \/ x = <<>> THEN dflt ELSE x

\* ------------------------------------------------------------ environment
\* progress_percent as the server may send it
PercentTexts == { Undefined, <<"3", "0">>, <<"5", "0">>, <<"x">> }

\* frames_generated / total_frames as the server may send them
FrameTexts == { Undefined, <<"0">>, <<"4", "0">>, <<"2", "0", "0">>, <<"x">> }
TotalTexts == { Undefined, <<"1", "6", "0">>, <<"x">> }

\* result.progress: the record may be omitted as a whole
NoProgress ==
  [ present |-> FALSE, progress_percent |-> Undefined,
    frames_generated |-> Undefined, total_frames |-> Undefined ]

\* Progress records that carry a percent only
Progresses ==
  {NoProgress} \cup
  [ present : {TRUE}, progress_percent : PercentTexts,
    frames_generated : {Undefined}, total_frames : {Undefined} ]

\* Progress records with frame counts
FrameProgresses ==
  [ present : {TRUE}, progress_percent : {Undefined, <<"3", "0">>},
    frames_generated : FrameTexts, total_frames : TotalTexts ]

\* A status response body.  The progress record is read only on the
\* non-terminal branch, so the terminal bodies are listed without one.
Snapshots ==
  { b \in [ exists : BOOLEAN, error : BOOLEAN, ready : BOOLEAN,
            status : {"initializing"}, progress : Progresses ] :
      (~b.exists \/ b.error \/ b.ready) => b.progress = NoProgress }

\* Bodies of a job that is running or just finished, with frame counts
FrameSnapshots ==
  [ exists : {TRUE}, error : {FALSE}, ready : {FALSE},
    status : {"generating_frames"}, progress : FrameProgresses ]

\* response.status of a non-2xx response
HttpStatuses == { 404, 422, 500 }

\* `HTTP ${response.status}: ${response.statusText}`
HttpMessage(status) ==
  CASE status = 404 -> "HTTP 404: Not Found"
    [] status = 422 -> "HTTP 422: Unprocessable Entity"
    [] status = 500 -> "HTTP 500: Internal Server Error"

\* Body of a non-2xx response: response.json() rejects (parses = FALSE) or
\* yields an object whose detail is a text; "" stands for a missing or empty
\* detail, both falsy.
ErrorBodies ==
  { [ parses |-> FALSE, detail |-> "" ],
    [ parses |-> TRUE,  detail |-> "" ],
    [ parses |-> TRUE,  detail |-> "Server exploded" ] }

\* fetch() or response.json() of a 2xx response throwing
Throws ==
  { [ type |-> "unreachable" ],                       \* TypeError: Failed to fetch
    [ type |-> "aborted", message |-> "The operation was aborted." ],
    [ type |-> "badjson", message |-> "Unexpected end of JSON input" ],
    [ type |-> "thrown" ] }                           \* a value that is no Error

HttpFailures == [ type : {"http"}, status : HttpStatuses, body : ErrorBodies ]

\* Locations in a submit response, character by character; <<>> is a missing
\* or empty one.
Locations ==
  { <<>>,
    << "/", "s" >>,
    << "h", "t", "m" >>,
    << "h", "t", "t", "p", ":", "/", "/", "c" >> }

\* Outcomes of fetch() for POST /generate
SubmitOutcomes ==
  { [ type |-> "ok", estimated_time_minutes |-> 0 ],
    [ type |-> "unreachable" ],                       \* TypeError: Failed to fetch
    [ type |-> "http", status |-> 500,
      body |-> [ parses |-> TRUE, detail |-> "Server exploded" ] ] }

\* Outcomes of fetch() for GET /status/{job}
PollOutcomes ==
  { [ type |-> "unreachable" ] } \cup
  { [ type |-> "ok", body |-> b ] : b \in Snapshots }

ConnectMsg  == "Cannot connect to the server. Make sure the FastAPI backend is running on port 8000."
ValidateMsg == "Please enter a prompt or select a story template"
NotFoundMsg == "Generation job not found"
FailedMsg   == "Generation failed. Please try again."
PollErrMsg  == "Failed to check generation status"
StartErrMsg == "Failed to start generation"

UnknownMsg  == "Unknown error occurred"

\* errorData of the non-ok branch:
\* await response.json().catch(() => ({ detail: 'Network error' }))
ErrorData(body) == IF body.parses THEN body ELSE [ parses |-> TRUE, detail |-> "Network error" ]

\* The APIError thrown by generateVideo / checkGenerationStatus for a failing
\* fetch outcome.
APIErrorZeroStatus(o) ==
  IF o.type = "http"
    THEN [ isError |-> TRUE, message |-> HttpMessage(o.status), status |-> <<o.status>> ]
    ELSE [ isError |-> TRUE, message |-> ConnectMsg, status |-> <<0>> ]
APIError(o) ==
  CASE o.type = "http" ->
         [ isError |-> TRUE,
           message |-> IF ErrorData(o.body).detail # ""
                         THEN ErrorData(o.body).detail
                         ELSE HttpMessage(o.status),
           status  |-> <<o.status>> ]
    [] o.type = "unreachable" ->
         [ isError |-> TRUE, message |-> ConnectMsg, status |-> NoStatus ]
    [] o.type \in {"aborted", "badjson"} ->
         [ isError |-> TRUE, message |-> o.message, status |-> NoStatus ]
    [] OTHER ->
         [ isError |-> TRUE, message |-> UnknownMsg, status |-> NoStatus ]

\* s.startsWith('http')
StartsWithHttp(s) ==
  Len(s) >= 4 /\ s[1] = "h" /\ s[2] = "t" /\ s[3] = "t" /\ s[4] = "p"

\* if (url && !url.startsWith('http')) url = `${API_BASE}${url}`
ResolveAlways(url) == <<API_BASE>> \o url
Resolve(url) ==
  IF url # <<>> /\ ~StartsWithHttp(url) THEN <<API_BASE>> \o url ELSE url

\* result.estimated_time_minutes || 20
EstimatedTime(o) ==
  IF o.estimated_time_minutes = 0 THEN 20 ELSE o.estimated_time_minutes

\* err instanceof Error ? err.message : "Failed to start generation"
CatchMessageGeneric(err) == StartErrMsg
CatchMessage(err) == IF err.isError THEN err.message ELSE StartErrMsg

\* result.download_url of job j, which the service serves at /download/{j}
DownloadUrl(j) == Resolve(<< "/download/", j >>)

\* ----------------------------------------------------------------- history
Min(a, b) == IF a < b THEN a ELSE b

\* history.slice(0, n)
SliceAll(h, n) == h
Slice(h, n) == SubSeq(h, 1, Min(Len(h), n))

\* history.unshift(item); setItem(..., history.slice(0, 10))
RecordAppends(h, item) == Slice(h \o <<item>>, HistoryCap)
RecordItem(h, item) == Slice(<<item>> \o h, HistoryCap)

\* An entry written by an earlier page load, i-th newest.
PriorItem(i) == [ id |-> 0 - i, prompt |-> <<"a">>, videoUrl |-> DownloadUrl(0 - i) ]
PriorHistory(n) == [ i \in 1..n |-> PriorItem(i) ]

\* ------------------------------------------------------- remaining time
Max(a, b) == IF a > b THEN a ELSE b

\* timeLeft = Math.max(0, (elapsed / framesGen) * (totalF - framesGen)) for
\* framesGen > 0; totalF may be NaN, and Math.max(0, NaN) is NaN.  The value
\* is kept as an exact fraction.
TimeLeftOfTotal(elapsed, framesGen, totalF) ==
  IF ~IsNum(totalF) THEN NaN
  ELSE Quot(Max(0, elapsed * totalF[1]), framesGen)
TimeLeft(elapsed, framesGen, totalF) ==
  IF ~IsNum(totalF) THEN NaN
  ELSE Quot(Max(0, elapsed * (totalF[1] - framesGen)), framesGen)

\* The useState initial values of ProgressTracker other than the percent
InitTracker(estimatedTime) ==
  [ status            |-> "initializing",
    framesGenerated   |-> Num(0),
    totalFrames       |-> Num(160),
    elapsedTime       |-> 0,
    estimatedTimeLeft |-> Quot(estimatedTime * 60, 1) ]

\* No ProgressTracker is mounted
NoTracker == InitTracker(0)

\* ------------------------------------------------------------------- form
\* useState<GenerationRequest>({ prompt: "", length_seconds: 20, ... }) with
\* prompt p typed in
DefaultLength == 20
Form(p) == [ prompt |-> p, length_seconds |-> Num(DefaultLength) ]

\* What can be typed into the Duration field; <<>> is the emptied field
DurationTexts == { <<>>, <<"4">>, <<"5">>, <<"6", "0">>, <<"6", "1">> }

\* <Input type="number" min="5" max="60">: the browser lets the form submit
\* when the field is empty or its number is within the range
MinLength == 5
MaxLength == 60
InRange(v) == IsNum(v) /\ v[1] >= MinLength /\ v[1] <= MaxLength

\* clearInterval(interval), on the count of active intervals
ClearIntervalNoop(n) == n
ClearInterval(n) == 0

\* ------------------------------------------------------------------- state
VARIABLES
  formData,        \* VideoGenerator: the form
  currentJob,      \* VideoGenerator: tracked job id, NoJob for null
  isGenerating,    \* VideoGenerator
  generatedVideo,  \* VideoGenerator: media location or Null
  error,           \* VideoGenerator: message or Null
  submits,         \* generateVideo calls awaiting their response
  nSubmits,        \* generateVideo calls issued so far
  effect,          \* ProgressTracker: closure of the live polling effect
                   \* (its interval is active), NoEffect when not mounted
  progress,        \* ProgressTracker: displayed percent
  tracker,         \* ProgressTracker: status, frames, elapsed, time left
  polls,           \* checkStatus invocations awaiting their response
  nPolls,          \* checkGenerationStatus calls issued so far
  storage,         \* localStorage['video-history'], parsed
  history,         \* GenerationHistory: the list it shows
  nRemoves,        \* deleteItem / clearHistory clicks so far
  removed,         \* observer: the ids deleteItem was called with
  now,             \* Date.now(), in seconds
  api,             \* one call of generateVideo / checkGenerationStatus
  subLog,          \* observer: per submission, the request and what the
                   \* transport returned
  cbLog,           \* observer: per job, onComplete / onError invocations
  applied,         \* observer: per job, the latest-issued poll whose response
                   \* checkStatus has handled
  completedView    \* observer: the tracker's state as the ready branch set it

vars == << formData, currentJob, isGenerating, generatedVideo, error, submits,
           nSubmits, effect, progress, tracker, polls, nPolls, storage,
           history, nRemoves, removed, now, api, subLog, cbLog, applied,
           completedView >>

Jobs == 1..MaxJobs

\* A job of the same page that was submitted, and ended, before the
\* submissions counted by nSubmits
EarlierJob == MaxJobs + 1
AllJobs == Jobs \cup {EarlierJob}

NoResult == [ ok |-> FALSE, settled |-> FALSE ]

\* No call of the API module under observation
NoCall ==
  [ fn |-> "none", outcome |-> [ type |-> "none" ], stage |-> "idle",
    fetches |-> 0, result |-> NoResult ]

NoView == [ job |-> NoJob, progress |-> Num(0), tracker |-> NoTracker ]

Init ==
  /\ formData = Form(<<>>)
  /\ currentJob = NoJob
  /\ isGenerating = FALSE
  /\ generatedVideo = NoVideo
  /\ error = Null
  /\ submits = {}
  /\ nSubmits = 0
  /\ effect = NoEffect
  /\ progress = Num(0)
  /\ tracker = NoTracker
  /\ polls = {}
  /\ nPolls = 0
  /\ storage \in { PriorHistory(n) : n \in {0, HistoryCap} }
  /\ history = storage
  /\ nRemoves = 0
  /\ removed = <<>>
  /\ now = 0
  /\ api = NoCall
  /\ subLog = [ j \in AllJobs |->
                [ state |-> "none", message |-> Null, request |-> Form(<<>>) ] ]
  /\ cbLog = [ j \in AllJobs |-> [ complete |-> 0, error |-> 0 ] ]
  /\ applied = [ j \in AllJobs |-> 0 ]
  /\ completedView = NoView

\* ------------------------------------------------- ProgressTracker effect
\* clearInterval of an effect run: its pending checkStatus calls go on, but
\* belong to a cleaned-up effect.
CancelAll(ps) == { [ p EXCEPT !.cancelled = TRUE ] : p \in ps }

\* Unmount: additionally the component's setState calls become no-ops.
KillAll(ps) == { [ p EXCEPT !.cancelled = TRUE, !.live = FALSE ] : p \in ps }

\* checkStatus() up to its await: the request is in flight, holding the
\* closure of effect run e (jobId, startTime, onComplete with the formData of
\* that render).
NewPoll(e) ==
  [ id |-> nPolls + 1, job |-> e.job, prompt |-> e.prompt, start |-> e.start,
    cancelled |-> FALSE, live |-> TRUE ]

\* checkStatus() called in effect run e
IssuePoll(e, ps) ==
  /\ nPolls < MaxPolls
  /\ polls' = ps \cup { NewPoll(e) }
  /\ nPolls' = nPolls + 1

\* useEffect body: startTime = Date.now(); checkStatus() at once, then
\* setInterval(checkStatus, 5000)
StartEffect(job, prompt, ps) ==
  /\ effect' = [ job |-> job, prompt |-> prompt, start |-> now,
                 timers |-> ClearInterval(effect.timers) + 1 ]
  /\ IssuePoll([ job |-> job, prompt |-> prompt, start |-> now ], ps)

\* What the ProgressTracker does when VideoGenerator has handled an event:
\* newJob / newPrompt are VideoGenerator's state after it, est the
\* estimatedTime of a job it starts to track, ps the pending polls, prog and
\* trk the tracker's state, rerendered whether VideoGenerator's state
\* changed (every render hands the tracker new onComplete / onError
\* functions, which are dependencies of the effect).
TrackerAfter(newJob, newPrompt, est, ps, prog, trk, rerendered) ==
  IF newJob = NoJob
    THEN \* {currentJob && <ProgressTracker/>}: unmounted, cleanup runs
         /\ effect' = NoEffect
         /\ polls' = KillAll(ps)
         /\ progress' = Num(0)
         /\ tracker' = NoTracker
         /\ UNCHANGED nPolls
    ELSE IF effect = NoEffect
      THEN \* mount: fresh state, effect runs
           /\ StartEffect(newJob, newPrompt, ps)
           /\ progress' = Num(0)
           /\ tracker' = InitTracker(est)
      ELSE IF rerendered
        THEN \* dependencies changed: cleanup, then the effect runs again
             /\ StartEffect(newJob, newPrompt, CancelAll(ps))
             /\ progress' = prog
             /\ tracker' = trk
        ELSE /\ polls' = ps
             /\ progress' = prog
             /\ tracker' = trk
             /\ UNCHANGED << effect, nPolls >>

\* ------------------------------------------------------- VideoGenerator
\* onChange of the prompt Textarea / handleTemplateSelect
EditPrompt ==
  \E p \in Prompts \ {formData.prompt} :
    /\ formData' = [ formData EXCEPT !.prompt = p ]
    /\ TrackerAfter(currentJob, p, 0, polls, progress, tracker, TRUE)
    /\ UNCHANGED << currentJob, isGenerating, generatedVideo, error, submits,
                    nSubmits, storage, history, nRemoves, removed, now, api, subLog,
                    cbLog, applied, completedView >>

\* onChange of the Duration input: length_seconds: parseInt(e.target.value)
EditDuration ==
  \E t \in DurationTexts :
    /\ ParseInt(t) # formData.length_seconds
    /\ formData' = [ formData EXCEPT !.length_seconds = ParseInt(t) ]
    /\ TrackerAfter(currentJob, formData.prompt, 0, polls, progress, tracker, TRUE)
    /\ UNCHANGED << currentJob, isGenerating, generatedVideo, error, submits,
                    nSubmits, storage, history, nRemoves, removed, now, api,
                    subLog, cbLog, applied, completedView >>

\* handleSubmit, up to the await of generateVideo
handleSubmit ==
  IF BlankPrompt(formData.prompt)
    THEN /\ error' = ValidateMsg
         /\ TrackerAfter(currentJob, formData.prompt, 0, polls, progress,
                         tracker, error # ValidateMsg)
         /\ UNCHANGED << formData, currentJob, isGenerating, generatedVideo,
                         submits, nSubmits, storage, history, nRemoves, removed, now,
                         api, subLog, cbLog, applied, completedView >>
    ELSE /\ nSubmits < MaxJobs
         /\ isGenerating' = TRUE
         /\ error' = Null
         /\ generatedVideo' = NoVideo
         /\ currentJob' = NoJob
         /\ submits' = submits \cup { [ sid |-> nSubmits + 1, request |-> formData ] }
         /\ nSubmits' = nSubmits + 1
         /\ subLog' = [ subLog EXCEPT ![nSubmits + 1].state = "pending",
                                      ![nSubmits + 1].request = formData ]
         /\ TrackerAfter(NoJob, formData.prompt, 0, polls, progress, tracker, TRUE)
         /\ UNCHANGED << formData, storage, history, nRemoves, removed, now, api,
                         cbLog, applied, completedView >>

\* <Button type="submit" disabled={isGenerating || !formData.prompt.trim()}>
SubmitDisabled == isGenerating \/ BlankPrompt(formData.prompt)

\* The form passes the browser's check of the Duration field
DurationValid ==
  formData.length_seconds = NaN \/ InRange(formData.length_seconds)

\* The user presses Generate (or Enter in a field of the form).
ClickGenerate == ~SubmitDisabled /\ DurationValid /\ handleSubmit

\* The form's submit event raised without the button while the prompt is
\* blank (requestSubmit, a test's fireEvent.submit): the handler runs
\* although the button is disabled for that prompt.
DispatchSubmit == BlankPrompt(formData.prompt) /\ handleSubmit

\* handleSubmit after the await: try-branch (setCurrentJob) or catch-branch
generateVideoSettled(s, o) ==
  /\ submits' = submits \ {s}
  /\ IF o.type = "ok"
       THEN \* the server names the job; ids follow the order of submission
            /\ currentJob' = s.sid
            /\ subLog' = [ subLog EXCEPT ![s.sid].state = "ok" ]
            /\ TrackerAfter(s.sid, formData.prompt, EstimatedTime(o), polls,
                            progress, tracker, TRUE)
            /\ UNCHANGED << isGenerating, error >>
       ELSE /\ error' = CatchMessage(APIError(o))
            /\ isGenerating' = FALSE
            /\ subLog' = [ subLog EXCEPT ![s.sid].state = "failed",
                                         ![s.sid].message = APIError(o).message ]
            /\ TrackerAfter(currentJob, formData.prompt, 0, polls, progress,
                            tracker,
                            isGenerating \/ error # CatchMessage(APIError(o)))
            /\ UNCHANGED currentJob
  /\ UNCHANGED << formData, generatedVideo, nSubmits, storage, history,
                  nRemoves, removed, now, api, cbLog, applied, completedView >>

SubmitResponse ==
  \E s \in submits, o \in SubmitOutcomes : generateVideoSettled(s, o)

\* ------------------------------------------------------ ProgressTracker
\* The interval fires: setInterval(checkStatus, 5000) calls checkStatus
\* whether or not an earlier call is still awaiting its response.
IntervalTickNever ==
  /\ FALSE
  /\ UNCHANGED vars
IntervalTick ==
  /\ effect # NoEffect
  /\ IssuePoll(effect, polls)
  /\ UNCHANGED << formData, currentJob, isGenerating, generatedVideo, error,
                  submits, nSubmits, effect, progress, tracker, storage,
                  history, nRemoves, removed, now, api, subLog, cbLog, applied,
                  completedView >>

\* Which branch of checkStatus a settled request takes.
VerdictReadyFirst(o) ==
  IF o.type # "ok" THEN "throw"
  ELSE IF o.body.ready THEN "ready"
  ELSE IF o.body.error THEN "failed"
  ELSE IF ~o.body.exists THEN "notfound"
  ELSE "progress"
VerdictByStatus(o) ==
  IF o.type # "ok" THEN "throw"
  ELSE IF ~o.body.exists THEN "notfound"
  ELSE IF o.body.error \/ o.body.status = "error" THEN "failed"
  ELSE IF o.body.ready \/ o.body.status = "completed" THEN "ready"
  ELSE "progress"
Verdict(o) ==
  IF o.type # "ok" THEN "throw"
  ELSE IF ~o.body.exists THEN "notfound"
  ELSE IF o.body.error THEN "failed"
  ELSE IF o.body.ready THEN "ready"
  ELSE "progress"

\* The entry handleGenerationComplete builds, in the closure of poll p.
HistoryItem(p) ==
  [ id |-> now, prompt |-> p.prompt, videoUrl |-> DownloadUrl(p.job) ]

\* handleGenerationError(msg), called as onError from checkStatus of poll p
onError(p, msg) ==
  /\ error' = msg
  /\ isGenerating' = FALSE
  /\ currentJob' = NoJob
  /\ cbLog' = [ cbLog EXCEPT ![p.job].error = @ + 1 ]
  /\ TrackerAfter(NoJob, formData.prompt, 0, polls \ {p}, progress, tracker, TRUE)
  /\ UNCHANGED << generatedVideo, storage, history, completedView >>

\* setProgress(100); setStatus("completed"); onComplete(downloadUrl) with
\* handleGenerationComplete; when the history write throws (setItem over
\* quota, JSON.parse of a damaged value) the catch of checkStatus runs.
\* onGenerationComplete, called after the write, remounts GenerationHistory,
\* which loads the stored list.
onComplete(p, storageOk) ==
  /\ generatedVideo' = DownloadUrl(p.job)
  /\ isGenerating' = FALSE
  /\ currentJob' = NoJob
  /\ completedView' =
       IF p.live
         THEN [ job |-> p.job, progress |-> Num(100),
                tracker |-> [ tracker EXCEPT !.status = "completed" ] ]
         ELSE completedView
  /\ TrackerAfter(NoJob, formData.prompt, 0, polls \ {p}, Num(100), tracker, TRUE)
  /\ IF storageOk
       THEN /\ storage' = RecordItem(storage, HistoryItem(p))
            /\ history' = storage'
            /\ cbLog' = [ cbLog EXCEPT ![p.job].complete = @ + 1 ]
            /\ UNCHANGED error
       ELSE /\ error' = PollErrMsg
            /\ cbLog' = [ cbLog EXCEPT ![p.job].complete = @ + 1,
                                       ![p.job].error = @ + 1 ]
            /\ UNCHANGED << storage, history >>

\* elapsed = (Date.now() - startTime) / 1000, the clock counting seconds
Elapsed(start) == now - start

\* The tracker after the non-terminal branch has handled body in the closure
\* of poll p: frames, elapsed and time left from result.progress, then
\* if (result.status) setStatus(result.status)
TrackedProgress(p, body) ==
  LET pr == body.progress
      framesGen == ParseInt(OrDefault(pr.frames_generated, <<"0">>))
      totalF == ParseInt(OrDefault(pr.total_frames, <<"1", "6", "0">>))
      measured ==
        IF pr.present
          THEN [ tracker EXCEPT
                   !.framesGenerated = framesGen,
                   !.totalFrames = totalF,
                   !.elapsedTime = Elapsed(p.start),
                   !.estimatedTimeLeft =
                      IF IsNum(framesGen) /\ framesGen[1] > 0
                        THEN TimeLeft(Elapsed(p.start), framesGen[1], totalF)
                        ELSE @ ]
          ELSE tracker
  IN  [ measured EXCEPT !.status = IF body.status # "" THEN body.status ELSE @ ]

\* The non-terminal branch: progress from the server
updateProgress(p, body) ==
  /\ TrackerAfter(currentJob, formData.prompt, 0, polls \ {p},
                  IF body.progress.present /\ p.live
                    THEN ParseFloat(OrDefault(body.progress.progress_percent, <<"0">>))
                    ELSE progress,
                  IF p.live THEN TrackedProgress(p, body) ELSE tracker,
                  FALSE)
  /\ UNCHANGED << currentJob, isGenerating, generatedVideo, error, storage,
                  history, cbLog, completedView >>

\* checkStatus after the await of checkGenerationStatus(jobId)
checkStatusSettled(p, o, storageOk) ==
  /\ CASE Verdict(o) = "throw"    -> onError(p, PollErrMsg)
       [] Verdict(o) = "notfound" -> onError(p, NotFoundMsg)
       [] Verdict(o) = "failed"   -> onError(p, FailedMsg)
       [] Verdict(o) = "ready"    -> onComplete(p, storageOk)
       [] OTHER                   -> updateProgress(p, o.body)
  /\ applied' = [ applied EXCEPT ![p.job] = Max(@, p.id) ]
  /\ UNCHANGED << formData, submits, nSubmits, nRemoves, removed, now, api, subLog >>

PollResponse ==
  \E p \in polls, o \in PollOutcomes :
    \E storageOk \in (IF Verdict(o) = "ready" THEN BOOLEAN ELSE {TRUE}) :
      checkStatusSettled(p, o, storageOk)

\* A response of a job that is generating frames
FrameResponse ==
  \E p \in polls, b \in FrameSnapshots :
    checkStatusSettled(p, [ type |-> "ok", body |-> b ], TRUE)

\* ------------------------------------------------------------------ clock
Advance ==
  /\ now < MaxClock
  /\ now' = now + 1
  /\ UNCHANGED << formData, currentJob, isGenerating, generatedVideo, error,
                  submits, nSubmits, effect, progress, tracker, polls, nPolls,
                  storage, history, nRemoves, removed, api, subLog, cbLog, applied,
                  completedView >>

\* ----------------------------------------------------- GenerationHistory
\* deleteItem(id): history.filter(item => item.id !== id), shown and stored
FilterOut(h, id) == SelectSeq(h, LAMBDA item : item.id # id)

deleteItem(id) ==
  /\ nRemoves < MaxRemoves
  /\ history' = FilterOut(history, id)
  /\ storage' = history'
  /\ nRemoves' = nRemoves + 1
  /\ removed' = Append(removed, id)
  /\ UNCHANGED << formData, currentJob, isGenerating, generatedVideo, error,
                  submits, nSubmits, effect, progress, tracker, polls, nPolls,
                  now, api, subLog, cbLog, applied, completedView >>

\* The trash button of a shown entry: the newest, the second or the oldest
DeleteClick ==
  \E i \in { 1, 2, Len(history) } \cap DOMAIN history : deleteItem(history[i].id)

\* clearHistory with the confirm() accepted; the button is rendered only
\* for a non-empty list
clearHistory ==
  /\ nRemoves < MaxRemoves
  /\ history # <<>>
  /\ storage' = <<>>
  /\ history' = <<>>
  /\ nRemoves' = nRemoves + 1
  /\ UNCHANGED << removed, formData, currentJob, isGenerating, generatedVideo, error,
                  submits, nSubmits, effect, progress, tracker, polls, nPolls,
                  now, api, subLog, cbLog, applied, completedView >>

\* -------------------------------------------------------------- API module
\* generateVideo(request) for fetch outcome o: the parsed body with its
\* locations resolved, or the APIError thrown
generateVideo(o) ==
  IF o.type = "ok"
    THEN [ ok |-> TRUE, settled |-> TRUE,
           data |-> [ o.body EXCEPT !.status_url = Resolve(@),
                                    !.download_url = Resolve(@) ] ]
    ELSE [ ok |-> FALSE, settled |-> TRUE, error |-> APIError(o) ]

\* checkGenerationStatus(jobId) for fetch outcome o
checkGenerationStatus(o) ==
  IF o.type = "ok"
    THEN [ ok |-> TRUE, settled |-> TRUE, data |-> o.body ]
    ELSE [ ok |-> FALSE, settled |-> TRUE, error |-> APIError(o) ]

\* Bodies of a 2xx response of POST /generate
SubmitBodies ==
  [ status_url : Locations, download_url : Locations, estimated_time_minutes : {0} ]

\* The calls observed: the function and what its fetch will do
ApiCalls ==
  [ fn : {"generateVideo", "checkGenerationStatus"}, outcome : Throws \cup HttpFailures ]
  \cup { [ fn |-> "generateVideo", outcome |-> [ type |-> "ok", body |-> b ] ] :
           b \in SubmitBodies }
  \cup { [ fn |-> "checkGenerationStatus", outcome |-> [ type |-> "ok", body |-> b ] ] :
           b \in { s \in Snapshots : s.progress = NoProgress } }

\* await fetch(...)
ApiFetch ==
  /\ api.stage = "called"
  /\ api' = [ api EXCEPT !.stage = "awaiting", !.fetches = @ + 1 ]
  /\ UNCHANGED << formData, currentJob, isGenerating, generatedVideo, error,
                  submits, nSubmits, effect, progress, tracker, polls, nPolls,
                  storage, history, nRemoves, removed, now, subLog, cbLog, applied,
                  completedView >>

\* The fetch settles and the function returns or throws
ApiSettle ==
  /\ api.stage = "awaiting"
  /\ api' = [ api EXCEPT !.stage = "settled",
                         !.result = IF api.fn = "generateVideo"
                                      THEN generateVideo(api.outcome)
                                      ELSE checkGenerationStatus(api.outcome) ]
  /\ UNCHANGED << formData, currentJob, isGenerating, generatedVideo, error,
                  submits, nSubmits, effect, progress, tracker, polls, nPolls,
                  storage, history, nRemoves, removed, now, subLog, cbLog, applied,
                  completedView >>

\* --------------------------------------------------------- specifications
Next ==
  \/ EditPrompt
  \/ ClickGenerate
  \/ SubmitResponse
  \/ IntervalTick
  \/ PollResponse
  \/ Advance

Spec == Init /\ [][Next]_vars

NextHandlers == Next \/ DispatchSubmit

SpecHandlers == Init /\ [][NextHandlers]_vars

\* The page with a prompt typed in, its history tab in use: jobs are
\* generated and recorded, entries removed, the list cleared
InitHistory ==
  /\ formData = Form(<< " ", "a" >>)
  /\ currentJob = NoJob
  /\ isGenerating = FALSE
  /\ generatedVideo = NoVideo
  /\ error = Null
  /\ submits = {}
  /\ nSubmits = 0
  /\ effect = NoEffect
  /\ progress = Num(0)
  /\ tracker = NoTracker
  /\ polls = {}
  /\ nPolls = 0
  /\ storage \in { PriorHistory(n) : n \in {0, HistoryCap} }
  /\ history = storage
  /\ nRemoves = 0
  /\ removed = <<>>
  /\ now = 0
  /\ api = NoCall
  /\ subLog = [ j \in AllJobs |->
                [ state |-> "none", message |-> Null, request |-> Form(<<>>) ] ]
  /\ cbLog = [ j \in AllJobs |-> [ complete |-> 0, error |-> 0 ] ]
  /\ applied = [ j \in AllJobs |-> 0 ]
  /\ completedView = NoView

NextHistory ==
  \/ ClickGenerate
  \/ SubmitResponse
  \/ IntervalTick
  \/ PollResponse
  \/ Advance
  \/ DeleteClick
  \/ clearHistory

SpecHistory == InitHistory /\ [][NextHistory]_vars

\* A job being tracked, its first status request in flight, some seconds
\* after the effect ran
ElapsedSamples == { 1, 50 }

InitEstimator ==
  /\ formData = Form(<< " ", "a" >>)
  /\ currentJob = 1
  /\ isGenerating = TRUE
  /\ generatedVideo = NoVideo
  /\ error = Null
  /\ submits = {}
  /\ nSubmits = 1
  /\ effect = [ job |-> 1, prompt |-> << " ", "a" >>, start |-> 0, timers |-> 1 ]
  /\ progress = Num(0)
  /\ tracker = InitTracker(20)
  /\ polls = { [ id |-> 1, job |-> 1, prompt |-> << " ", "a" >>, start |-> 0,
                 cancelled |-> FALSE, live |-> TRUE ] }
  /\ nPolls = 1
  /\ storage = <<>>
  /\ history = <<>>
  /\ nRemoves = 0
  /\ removed = <<>>
  /\ now \in ElapsedSamples
  /\ api = NoCall
  /\ subLog = [ j \in AllJobs |->
                IF j = 1
                  THEN [ state |-> "ok", message |-> Null,
                         request |-> Form(<< " ", "a" >>) ]
                  ELSE [ state |-> "none", message |-> Null,
                         request |-> Form(<<>>) ] ]
  /\ cbLog = [ j \in AllJobs |-> [ complete |-> 0, error |-> 0 ] ]
  /\ applied = [ j \in AllJobs |-> 0 ]
  /\ completedView = NoView

NextEstimator == IntervalTick \/ FrameResponse

SpecEstimator == InitEstimator /\ [][NextEstimator]_vars

\* One call of the API module, alone
InitApi ==
  /\ formData = Form(<<>>)
  /\ currentJob = NoJob
  /\ isGenerating = FALSE
  /\ generatedVideo = NoVideo
  /\ error = Null
  /\ submits = {}
  /\ nSubmits = 0
  /\ effect = NoEffect
  /\ progress = Num(0)
  /\ tracker = NoTracker
  /\ polls = {}
  /\ nPolls = 0
  /\ storage = <<>>
  /\ history = <<>>
  /\ nRemoves = 0
  /\ removed = <<>>
  /\ now = 0
  /\ subLog = [ j \in AllJobs |->
                [ state |-> "none", message |-> Null, request |-> Form(<<>>) ] ]
  /\ cbLog = [ j \in AllJobs |-> [ complete |-> 0, error |-> 0 ] ]
  /\ applied = [ j \in AllJobs |-> 0 ]
  /\ completedView = NoView
  /\ api \in { [ fn |-> c.fn, outcome |-> c.outcome, stage |-> "called",
                 fetches |-> 0, result |-> NoResult ] : c \in ApiCalls }

NextApi == ApiFetch \/ ApiSettle

SpecApi == InitApi /\ [][NextApi]_vars

\* result.status as the server may send it; "" is a missing or empty one
StatusTexts ==
  { "", "initializing", "generating_frames", "completed", "error", "warming_up" }

\* getStatusMessage(status), the phase line shown (without its emoji)
getStatusMessage(status) ==
  CASE status = "starting"          -> "Starting generation..."
    [] status = "checking_ffmpeg"   -> "Checking system requirements..."
    [] status = "initializing"      -> "Initializing AI model..."
    [] status = "generating_frames" -> "Generating video frames..."
    [] status = "assembling_video"  -> "Assembling final video..."
    [] status = "completed"         -> "Generation completed!"
    [] status = "error"             -> "Generation failed"
    [] OTHER                        -> "Processing..."

\* Status bodies with every combination of the three flags and every phase
\* name, with no progress record or one that reports 150 percent
PollBodies ==
  [ exists : BOOLEAN, error : BOOLEAN, ready : BOOLEAN, status : StatusTexts,
    progress : { NoProgress,
                 [ present |-> TRUE, progress_percent |-> << "1", "5", "0" >>,
                   frames_generated |-> Undefined, total_frames |-> Undefined ] } ]

\* Job 1 tracked, checkGenerationStatus has just returned a body to the
\* first checkStatus
InitPoll ==
  /\ formData = Form(<< " ", "a" >>)
  /\ currentJob = 1
  /\ isGenerating = TRUE
  /\ generatedVideo = NoVideo
  /\ error = Null
  /\ submits = {}
  /\ nSubmits = 1
  /\ effect = [ job |-> 1, prompt |-> << " ", "a" >>, start |-> 0, timers |-> 1 ]
  /\ progress = Num(0)
  /\ tracker = InitTracker(20)
  /\ polls = { [ id |-> 1, job |-> 1, prompt |-> << " ", "a" >>, start |-> 0,
                 cancelled |-> FALSE, live |-> TRUE ] }
  /\ nPolls = 1
  /\ storage = <<>>
  /\ history = <<>>
  /\ nRemoves = 0
  /\ removed = <<>>
  /\ now = 0
  /\ api \in { [ fn |-> "checkGenerationStatus",
                 outcome |-> [ type |-> "ok", body |-> b ],
                 stage |-> "settled", fetches |-> 1,
                 result |-> checkGenerationStatus([ type |-> "ok", body |-> b ]) ] :
               b \in PollBodies }
  /\ subLog = [ j \in AllJobs |->
                IF j = 1
                  THEN [ state |-> "ok", message |-> Null,
                         request |-> Form(<< " ", "a" >>) ]
                  ELSE [ state |-> "none", message |-> Null,
                         request |-> Form(<<>>) ] ]
  /\ cbLog = [ j \in AllJobs |-> [ complete |-> 0, error |-> 0 ] ]
  /\ applied = [ j \in AllJobs |-> 0 ]
  /\ completedView = NoView

\* checkStatus goes on with the body that was returned
HandleResult ==
  /\ api.stage = "settled"
  /\ api.fn = "checkGenerationStatus"
  /\ \E p \in polls : checkStatusSettled(p, api.outcome, TRUE)

NextPoll == HandleResult \/ IntervalTick

SpecPoll == InitPoll /\ [][NextPoll]_vars

\* The status request from which the server reports ready=true: the last
\* one the bound on requests allows
ReadyFrom == MaxPolls

\* Bodies of a server that knows the job, reports no error, and reports
\* ready=true to request p when p is the ReadyFrom-th or a later one
LiveBodies(p) ==
  { b \in Snapshots :
      b.exists /\ ~b.error /\ (p.id >= ReadyFrom => b.ready) }

\* Job 1 has just been mounted: the effect has run, its first checkStatus
\* is awaiting the response
InitLive ==
  /\ formData = Form(<< " ", "a" >>)
  /\ currentJob = 1
  /\ isGenerating = TRUE
  /\ generatedVideo = NoVideo
  /\ error = Null
  /\ submits = {}
  /\ nSubmits = 1
  /\ effect = [ job |-> 1, prompt |-> << " ", "a" >>, start |-> 0, timers |-> 1 ]
  /\ progress = Num(0)
  /\ tracker = InitTracker(0)
  /\ polls = { [ id |-> 1, job |-> 1, prompt |-> << " ", "a" >>, start |-> 0,
                 cancelled |-> FALSE, live |-> TRUE ] }
  /\ nPolls = 1
  /\ storage \in { PriorHistory(n) : n \in {0, HistoryCap} }
  /\ history = storage
  /\ nRemoves = 0
  /\ removed = <<>>
  /\ now = 0
  /\ api = NoCall
  /\ subLog = [ j \in AllJobs |->
                IF j = 1
                  THEN [ state |-> "ok", message |-> Null,
                         request |-> Form(<< " ", "a" >>) ]
                  ELSE [ state |-> "none", message |-> Null,
                         request |-> Form(<<>>) ] ]
  /\ cbLog = [ j \in AllJobs |-> [ complete |-> 0, error |-> 0 ] ]
  /\ applied = [ j \in AllJobs |-> 0 ]
  /\ completedView = NoView

\* A status request is answered by that server
LiveResponse ==
  \E p \in polls :
    \E b \in LiveBodies(p) :
      \E storageOk \in (IF b.ready THEN BOOLEAN ELSE {TRUE}) :
        checkStatusSettled(p, [ type |-> "ok", body |-> b ], storageOk)

NextLive == EditPrompt \/ IntervalTick \/ LiveResponse \/ Advance

\* The interval keeps firing while it is set, and every request in flight
\* is answered
SpecLive ==
  /\ InitLive
  /\ [][NextLive]_vars
  /\ WF_vars(IntervalTick)
  /\ WF_vars(LiveResponse)

\* The page after an earlier job has failed: the failure came from the
\* status request the interval issued, the request issued before it is
\* still in flight
InitLate ==
  /\ formData = Form(<< " ", "a" >>)
  /\ currentJob = NoJob
  /\ isGenerating = FALSE
  /\ generatedVideo = NoVideo
  /\ error = FailedMsg
  /\ submits = {}
  /\ nSubmits = 0
  /\ effect = NoEffect
  /\ progress = Num(0)
  /\ tracker = NoTracker
  /\ polls = { [ id |-> 0 - 1, job |-> EarlierJob, prompt |-> << " ", "a" >>,
                 start |-> 0, cancelled |-> TRUE, live |-> FALSE ] }
  /\ nPolls = 0
  /\ storage = <<>>
  /\ history = <<>>
  /\ nRemoves = 0
  /\ removed = <<>>
  /\ now = 0
  /\ api = NoCall
  /\ subLog = [ j \in AllJobs |->
                IF j = EarlierJob
                  THEN [ state |-> "ok", message |-> Null,
                         request |-> Form(<< " ", "a" >>) ]
                  ELSE [ state |-> "none", message |-> Null,
                         request |-> Form(<<>>) ] ]
  /\ cbLog = [ j \in AllJobs |->
               [ complete |-> 0, error |-> IF j = EarlierJob THEN 1 ELSE 0 ] ]
  /\ applied = [ j \in AllJobs |-> 0 ]
  /\ completedView = NoView

SpecLate == InitLate /\ [][Next]_vars

\* The form with its Duration field in use, up to the submit response
NextForm ==
  \/ EditPrompt
  \/ EditDuration
  \/ ClickGenerate
  \/ SubmitResponse

SpecForm == Init /\ [][NextForm]_vars

\* The history tab with any identifier handed to deleteItem
RemoveIds == { 0 - HistoryCap, 0 - 1, 0, 1, 7 }

RemoveAny == \E id \in RemoveIds : deleteItem(id)

NextRemove ==
  \/ ClickGenerate
  \/ SubmitResponse
  \/ IntervalTick
  \/ PollResponse
  \/ Advance
  \/ RemoveAny

SpecRemove == InitHistory /\ [][NextRemove]_vars

\* ----------------------------------------------------------- properties
PollIds(ps) == { p.id : p \in ps }

\* a status request for job j is issued in this step
IssuesPollFor(j) == \E p \in polls' : p.id > nPolls /\ p.job = j

\* the response to pending poll p is handled in this step
Settles(p) == p.id \notin PollIds(polls')

OnlySpaces(t) == \A i \in 1..Len(t) : t[i] = " "

\* C1: a submit with an empty or whitespace-only prompt is rejected with the
\* validation message; generateVideo is not invoked, no job is tracked and no
\* tracker is mounted by it, and every generateVideo call that is made
\* carries a prompt with a visible character.
C1_BlankPromptRejected ==
  [][ /\ (OnlySpaces(formData.prompt) /\ handleSubmit) =>
           /\ error' = ValidateMsg
           /\ nSubmits' = nSubmits /\ submits' = submits
           /\ currentJob' = currentJob /\ isGenerating' = isGenerating
           /\ (effect = NoEffect => effect' = NoEffect /\ nPolls' = nPolls)
      /\ \A r \in submits' : ~OnlySpaces(r.request.prompt) ]_vars

C1_Witness ==
  /\ error = ValidateMsg
  /\ formData.prompt = <<" ">>
  /\ nSubmits = 0 /\ currentJob = NoJob

\* C2: once onComplete has fired for a job it does not fire again for that
\* job, and no further status request is issued for it.
C2_CompleteOnceThenSilent ==
  [][ \A j \in Jobs : cbLog[j].complete >= 1 =>
        /\ cbLog'[j].complete = cbLog[j].complete
        /\ ~IssuesPollFor(j) ]_vars

\* C3: the response to a poll whose effect has been cleaned up is discarded:
\* it invokes no callback and changes no displayed progress.
C3_LateResponseDiscarded ==
  [][ \A p \in polls : (p.cancelled /\ Settles(p)) =>
        (cbLog' = cbLog /\ progress' = progress) ]_vars

\* C4: at most one status request per job is in flight.
C4_OneRequestInFlight ==
  \A j \in Jobs : Cardinality({ p \in polls : p.job = j }) <= 1

\* C5: onComplete and onError are never both invoked for the same job.
C5_OneTerminalOutcome ==
  \A j \in Jobs : ~(cbLog[j].complete >= 1 /\ cbLog[j].error >= 1)

\* C6: once an error has been reported for a job, no further callback fires
\* for it and no further status request is issued for it.
C6_StopsAfterFailure ==
  [][ \A j \in Jobs : cbLog[j].error >= 1 =>
        /\ cbLog'[j] = cbLog[j]
        /\ ~IssuesPollFor(j) ]_vars

\* C7: while one job is tracked the displayed percent never goes from a
\* number to a smaller number.
C7_PercentMonotone ==
  [][ (currentJob # NoJob /\ currentJob' = currentJob
         /\ IsNum(progress) /\ IsNum(progress')) =>
        progress'[1] >= progress[1] ]_vars

\* a failure is handled in this step: an onError call, or the catch of handleSubmit
FailureOf(j) ==
  \/ cbLog'[j].error > cbLog[j].error
  \/ subLog'[j].state = "failed" /\ subLog[j].state # "failed"

\* C8: every failure leaves one error message, the one message of that job,
\* and the system idle: isGenerating false and no job tracked.
C8_FailureLeavesIdle ==
  [][ \A j \in Jobs : FailureOf(j) =>
        /\ error' # Null
        /\ ~isGenerating'
        /\ currentJob' = NoJob
        /\ cbLog'[j].error <= 1 ]_vars

\* C9: when generateVideo fails, the message of the error it threw is shown,
\* generation ends, the request is not issued again, and no status request
\* is ever issued for a submission that did not succeed.
C9_SubmitFailureIsFinal ==
  [][ /\ \A j \in Jobs : (subLog'[j].state = "failed" /\ subLog[j].state # "failed") =>
             /\ error' = subLog'[j].message
             /\ ~isGenerating'
             /\ currentJob' = currentJob
             /\ nSubmits' = nSubmits
             /\ submits' = { r \in submits : r.sid # j }
             /\ ~IssuesPollFor(j)
      /\ \A p \in polls' : subLog'[p.job].state = "ok" ]_vars

C9_Witness ==
  \E j \in Jobs :
    /\ subLog[j].state = "failed"
    /\ error = subLog[j].message
    /\ ~isGenerating /\ currentJob = NoJob /\ polls = {}

\* the history write of handleGenerationComplete succeeds in this step
Records ==
  \E j \in Jobs : /\ cbLog'[j].complete > cbLog[j].complete
                   /\ cbLog'[j].error = cbLog[j].error

\* C10: a successful record leaves the new entry first, followed by the first
\* min(|L|, 9) entries of the prior history L.
C10_RecordPrependsAndTruncates ==
  [][ Records =>
        /\ Len(storage') = (IF Len(storage) < 9 THEN Len(storage) ELSE 9) + 1
        /\ \A i \in 2..Len(storage') : storage'[i] = storage[i - 1]
        /\ \E p \in polls : /\ Settles(p)
                             /\ storage'[1].id = now
                             /\ storage'[1].prompt = p.prompt
                             /\ storage'[1].videoUrl = DownloadUrl(p.job) ]_vars

\* The 11th record on top of ten earlier entries: ten remain, the new one
\* first, the oldest of the ten gone.
C10_Witness ==
  /\ Len(storage) = 10
  /\ storage[1].id >= 0
  /\ storage[2] = PriorItem(1)
  /\ storage[10] = PriorItem(9)
  /\ \A i \in 1..10 : storage[i] # PriorItem(10)

\* the entries of the stored history that belong to job j
EntriesOf(j) == { i \in DOMAIN storage : storage[i].videoUrl = DownloadUrl(j) }

NonNegative(t) == t = NaN \/ t[1] >= 0

C14_EstimateNonNegativeZeroAtCompleted ==
  /\ NonNegative(tracker.estimatedTimeLeft)
  /\ NonNegative(completedView.tracker.estimatedTimeLeft)
  /\ completedView.job # NoJob => completedView.tracker.estimatedTimeLeft = Quot(0, 1)

\* the percents a status response can report
ReportedPercents == { ParseFloat(t) : t \in PercentTexts } \ {NaN}

\* C15: while a job is tracked, a snapshot without a usable progress_percent
\* leaves the percent and the estimate as they were: the percent changes
\* only to a percent the server reported (never to zero, never to a value
\* nobody sent), and the estimate stays when no frame count arrives.
C15_PercentKeptWhenMissing ==
  [][ (currentJob # NoJob /\ currentJob' = currentJob)
        => /\ progress' # progress => progress' \in ReportedPercents
           /\ tracker'.estimatedTimeLeft = tracker.estimatedTimeLeft ]_vars

\* C16: the responses of one job are applied in the order their polls were
\* issued: a response that updates the tracker belongs to a poll issued
\* after every poll of that job whose response was handled before.
C16_AppliedInIssuanceOrder ==
  [][ \A p \in polls :
        (Settles(p) /\ p.live /\ ~p.cancelled) => p.id > applied[p.job] ]_vars

\* C20: every entry recorded for a job carries the prompt of the request
\* that was submitted for it, whatever was typed into the form afterwards.
C20_EntryCarriesSubmittedRequest ==
  \A j \in Jobs : \A i \in EntriesOf(j) :
    storage[i].prompt = subLog[j].request.prompt

\* C12: whatever is recorded, removed and cleared, the stored history holds
\* at most 10 entries and lists them newest first.
C12_HistoryCappedNewestFirst ==
  /\ Len(storage) <= 10
  /\ \A i \in DOMAIN storage : \A k \in DOMAIN storage :
       i < k => storage[i].id >= storage[k].id

\* a record onto a full history, then the removal of its second entry
C12_Witness ==
  /\ nRemoves = 1
  /\ Len(storage) = 9
  /\ storage[1].id >= 0
  /\ storage[2] = PriorItem(2)
  /\ storage[9] = PriorItem(9)

\* C13: after a non-terminal snapshot with frames_generated > 0 the
\* remaining time is max(0, (elapsed / frames_generated) * (total_frames -
\* frames_generated)); for 160 frames, 40 generated and 50 s it is 150 s.
C13_EstimateFormula ==
  LET F   == tracker.framesGenerated
      T   == tracker.totalFrames
      E   == tracker.elapsedTime
      eta == tracker.estimatedTimeLeft
  IN  (IsNum(F) /\ F[1] > 0 /\ IsNum(T)) =>
        /\ eta # NaN
        /\ eta[2] > 0
        /\ IF E * (T[1] - F[1]) > 0
             THEN eta[1] * F[1] = eta[2] * E * (T[1] - F[1])
             ELSE eta[1] = 0
        /\ (T[1] = 160 /\ F[1] = 40 /\ E = 50) => eta = << 150, 1 >>

C13_Witness ==
  /\ tracker.totalFrames = Num(160)
  /\ tracker.framesGenerated = Num(40)
  /\ tracker.elapsedTime = 50
  /\ tracker.estimatedTimeLeft = << 150, 1 >>

\* s begins with the four characters h, t, t, p
HttpPrefix(s) == Len(s) >= 4 /\ SubSeq(s, 1, 4) = << "h", "t", "t", "p" >>

\* C17: in the result of a successful submit, a status or download location
\* that does not begin with "http" is the service base followed by the
\* location the server sent, and one that does is what the server sent; a
\* location the server left out stays left out.
C17_LocationsResolved ==
  (api.stage = "settled" /\ api.fn = "generateVideo" /\ api.outcome.type = "ok") =>
    /\ api.result.ok
    /\ \A f \in { "status_url", "download_url" } :
         LET sent == api.outcome.body[f]
             got  == api.result.data[f]
         IN  /\ (sent # <<>> /\ ~HttpPrefix(sent)) => got = <<API_BASE>> \o sent
             /\ HttpPrefix(sent) => got = sent
             /\ sent = <<>> => got = <<>>

C17_Witness ==
  /\ api.stage = "settled"
  /\ api.fn = "generateVideo"
  /\ api.outcome.type = "ok"
  /\ api.outcome.body.status_url = << "/", "s" >>
  /\ api.result.data.status_url = << API_BASE, "/", "s" >>
  /\ api.outcome.body.download_url = << "h", "t", "t", "p", ":", "/", "/", "c" >>
  /\ api.result.data.download_url = api.outcome.body.download_url

\* C18: for a non-2xx response the error carries the HTTP status, and its
\* message is the body's message when the body parses and has one, otherwise
\* the message made from the status.
C18_HttpErrorStatusAndMessage ==
  (api.stage = "settled" /\ api.outcome.type = "http") =>
    /\ ~api.result.ok
    /\ api.result.error.status = << api.outcome.status >>
    /\ api.result.error.message =
         IF api.outcome.body.parses /\ api.outcome.body.detail # ""
           THEN api.outcome.body.detail
           ELSE HttpMessage(api.outcome.status)

\* C19: a call makes one fetch and never a second one; when the service is
\* unreachable it fails with the connection error, which has no HTTP status,
\* while the error of a non-2xx response has one.
C19_OneRoundTripNoStatus ==
  /\ api.fetches <= 1
  /\ api.stage = "settled" =>
       /\ api.fetches = 1
       /\ api.outcome.type = "unreachable" =>
            /\ ~api.result.ok
            /\ api.result.error.message = ConnectMsg
            /\ api.result.error.status = NoStatus
       /\ api.outcome.type = "http" =>
            /\ ~api.result.ok
            /\ api.result.error.status # NoStatus

C19_Witness ==
  /\ api.stage = "settled"
  /\ api.fn = "checkGenerationStatus"
  /\ api.outcome.type = "unreachable"
  /\ api.fetches = 1
  /\ ~api.result.ok
  /\ api.result.error.status = NoStatus

\* the positions of h whose entry has another identifier than id
KeptPositions(h, id) == { i \in DOMAIN h : h[i].id # id }

\* C21: a call of deleteItem(id) takes exactly one entry out of the stored
\* history when an entry has that identifier, and every other entry stays,
\* in the same order; for an identifier no entry has, the history stays as
\* it is.
C21_RemoveDeletesExactlyOne ==
  [][ Len(removed') = Len(removed) + 1 =>
        LET id   == removed'[Len(removed')]
            kept == KeptPositions(storage, id)
        IN  /\ Len(storage') = Len(storage) -
                                 (IF kept = DOMAIN storage THEN 0 ELSE 1)
            /\ \A i \in kept :
                 storage'[Cardinality({ m \in kept : m <= i })] = storage[i] ]_vars

\* C22: the entries of the stored history have pairwise distinct
\* identifiers.
C22_IdsDistinct ==
  \A i \in DOMAIN storage : \A k \in DOMAIN storage :
    i # k => storage[i].id # storage[k].id

\* C23: every request handed to generateVideo has a whole number of seconds
\* from 5 to 60 as its duration.
C23_DurationInRange ==
  \A r \in submits :
    /\ IsNum(r.request.length_seconds)
    /\ r.request.length_seconds[1] \in 5..60

\* C24: at most one interval is active, exactly one while a job is tracked
\* (also after the effect has re-run) and none otherwise; without an active
\* interval no status request is issued; clearing a cleared interval changes
\* nothing.
C24_OneTimer ==
  /\ [](/\ effect.timers <= 1
        /\ effect.timers = (IF currentJob = NoJob THEN 0 ELSE 1)
        /\ ClearInterval(ClearInterval(effect.timers)) = ClearInterval(effect.timers))
  /\ [][ (effect.timers = 0 /\ effect'.timers = 0) => nPolls' = nPolls ]_vars

\* the effect has re-run while job 1 is tracked: one interval, the request
\* of the cleaned-up run still pending
C24_Witness ==
  /\ currentJob = 1
  /\ effect.timers = 1
  /\ nPolls = 2
  /\ \E p \in polls : p.cancelled /\ p.live

\* C28: while a job is tracked the origin of the elapsed time stays where
\* it was when tracking began, and the elapsed time shown does not fall.
C28_ElapsedOriginKept ==
  [][ (currentJob # NoJob /\ currentJob' = currentJob) =>
        /\ effect'.start = effect.start
        /\ tracker'.elapsedTime >= tracker.elapsedTime ]_vars

\* the first status request has been handled
Handled == applied[1] >= 1

\* the body under observation keeps the job running
NonTerminal(b) == b.exists /\ ~b.error /\ ~b.ready

\* C25: a body with exists=true, error=false and ready=false leaves the
\* session polling whatever its phase name is: the job stays tracked, no
\* callback runs, nothing is reported, the interval stays; the phase shown is
\* the one sent, and a name that is not known is shown as processing.
C25_PhaseNeverDrivesLifecycle ==
  (Handled /\ NonTerminal(api.outcome.body)) =>
    /\ currentJob = 1
    /\ isGenerating
    /\ error = Null
    /\ cbLog[1] = [ complete |-> 0, error |-> 0 ]
    /\ effect.timers = 1
    /\ tracker.status =
         (IF api.outcome.body.status = "" THEN "initializing"
                                         ELSE api.outcome.body.status)
    /\ tracker.status = "warming_up" =>
         getStatusMessage(tracker.status) = "Processing..."

C25_Witness ==
  /\ Handled
  /\ NonTerminal(api.outcome.body)
  /\ api.outcome.body.status = "error"
  /\ tracker.status = "error"
  /\ currentJob = 1

\* C29: the percent shown is a number from 0 to 100, and it is 100 in the
\* state the Completed transition produces.
C29_PercentInRange ==
  /\ IsNum(progress)
  /\ progress[1] \in 0..100
  /\ completedView.job # NoJob => completedView.progress = Num(100)

\* C30: a body with exists=false is reported as not found whatever its
\* other flags are, one with exists=true and error=true as failed also when
\* ready=true, and only a body with exists=true, error=false and ready=true
\* completes the job.
C30_TerminalPrecedence ==
  Handled =>
    LET b == api.outcome.body
    IN  /\ ~b.exists =>
             (error = NotFoundMsg /\ cbLog[1].complete = 0 /\ cbLog[1].error >= 1)
        /\ (b.exists /\ b.error) =>
             (error = FailedMsg /\ cbLog[1].complete = 0 /\ cbLog[1].error >= 1)
        /\ (b.exists /\ ~b.error /\ b.ready) =>
             (error = Null /\ cbLog[1].complete >= 1 /\ cbLog[1].error = 0)

C30_Witness ==
  /\ Handled
  /\ ~api.outcome.body.exists
  /\ api.outcome.body.error
  /\ api.outcome.body.ready
  /\ error = NotFoundMsg
  /\ storage = <<>>

\* job j has been submitted and has not reached a terminal outcome
Active(j) ==
  \/ subLog[j].state = "pending"
  \/ subLog[j].state = "ok" /\ cbLog[j].complete = 0 /\ cbLog[j].error = 0

\* C26: at most one job is active, and while one is, the form cannot issue
\* another submission.
C26_OneActiveJob ==
  /\ Cardinality({ j \in AllJobs : Active(j) }) <= 1
  /\ (\E j \in AllJobs : Active(j)) => isGenerating

\* job j's session has ended and another job has been submitted since
Superseded(j) ==
  /\ cbLog[j].complete + cbLog[j].error >= 1
  /\ \E k \in AllJobs \ {j} : Active(k)

\* C27: a response to a status request of a job whose session has ended,
\* arriving after another job was submitted, leaves the tracked job, the
\* generating flag, the error and the stored history as they are.
C27_LateResponseLeavesLaterJob ==
  [][ \A p \in polls :
        (Settles(p) /\ Superseded(p.job)) =>
          /\ currentJob' = currentJob
          /\ isGenerating' = isGenerating
          /\ error' = error
          /\ storage' = storage ]_vars

\* C31: with the interval firing, every status request answered with
\* exists=true and error=false, and ready=true reported from some request
\* onward, a tracked job leads to the Completed state (percent 100, phase
\* completed) with onComplete called.
C31_EventuallyCompleted ==
  (currentJob = 1 /\ cbLog[1].complete = 0) ~>
    /\ cbLog[1].complete >= 1
    /\ completedView.job = 1
    /\ completedView.progress = Num(100)
    /\ completedView.tracker.status = "completed"

C31_Witness ==
  /\ cbLog[1].complete >= 1
  /\ completedView.job = 1
  /\ applied[1] = ReadyFrom
  /\ nPolls = MaxPolls
  /\ polls = {}
  /\ currentJob = NoJob
====
